---- MODULE Spec2Model ----
(***************************************************************************)
(* Model of the geppetto account layer: the validation chain, the typed    *)
(* access paths and the lamport / lifecycle primitives of                  *)
(* src/lib/src/loaders.rs, the fixed-layout and header decoders of         *)
(* src/lib/src/traits.rs and the instruction codec of                      *)
(* src/lib/src/macros.rs, instantiated with the types of src/lib/src/lib.rs*)
(*                                                                         *)
(* Five specifications share the variables:                                *)
(*   Spec          validation and typed access on account handles          *)
(*   SpecCreate    the allocation path and the read that follows it        *)
(*   SpecLifecycle sequences of all six account operations, with borrows   *)
(*   SpecLamports  send and close                                          *)
(*   SpecCodec     the byte-buffer decoders and the instruction codec      *)
(***************************************************************************)
EXTENDS Integers, Sequences, FiniteSets, TLC

VARIABLES
    lamports,         \* account -> balance (u64, width scaled to LamportBits)
    data,             \* account -> data buffer (sequence of bytes)
    owner,            \* account -> owning program
    is_writable,      \* account -> writable flag supplied by the runtime
    overflow_checks,  \* build profile: TRUE = overflow panics, FALSE = wraps
    bytes,            \* the byte slice handed to a decoder of traits.rs / macros.rs
    addr,             \* address of bytes[0] modulo the record alignment
    call,             \* the last operation and its arguments
    pre,              \* balances, buffers and owners at the entry of the last operation
    allocation,       \* the allocation the last create_account asked the allocator for
    borrow_state,     \* account -> region -> -1 (mutably borrowed) or the number of shared borrows
    borrow_log,       \* the borrows the last operation took, and whether one was refused
    result            \* what the last operation returned

vars ==
    <<lamports, data, owner, is_writable, overflow_checks, bytes, addr, call, pre,
      allocation, borrow_state, borrow_log, result>>

----------------------------------------------------------------------------
(* Bounds *)

\* width of the balance integers (u64 in the source, scaled down)
LamportBits ==
    3

\* longest account data buffer drawn in Init
MaxDataLen ==
    10

\* longest raw byte slice drawn in Init of SpecCodec
MaxBufLen ==
    17

----------------------------------------------------------------------------
(* Types of lib.rs and their layout *)

U64Modulus ==
    2 ^ LamportBits

Accounts ==
    {1, 2}

Pubkeys ==
    {"program", "system"}

AccountTypes ==
    {"Counter", "Profile"}

InstructionTypes ==
    {"Add", "Initialize"}

\* MyAccount enum, account!(MyAccount, T) => T::discriminator()
Discriminator(T) ==
    CASE T = "Counter" -> 0
      [] T = "Profile" -> 1

\* MyInstruction enum, borsh_instruction!(MyInstruction, T) => T::discriminator()
InstructionDiscriminator(T) ==
    CASE T = "Add" -> 0
      [] T = "Initialize" -> 1

\* size_of::<T>() of the account records: one u64 field
SizeOf(T) ==
    CASE T = "Counter" -> 8
      [] T = "Profile" -> 8

\* align_of::<T>() of the account records: one u64 field
AlignOf(T) ==
    CASE T = "Counter" -> 8
      [] T = "Profile" -> 8

\* number of bytes the borsh encoding of an instruction payload takes
InstructionSize(T) ==
    CASE T = "Add" -> 8
      [] T = "Initialize" -> 0

\* offset at which the decoders of traits.rs slice the buffer (&data[8..])
PodOffset ==
    8

\* offset at which loaders.rs slices the account data (&data[1..])
BorshOffset ==
    1

----------------------------------------------------------------------------
(* Results *)

Ok(v) ==
    [kind |-> "Ok", err |-> "", value |-> v, offset |-> 0, rest |-> <<>>]

\* a zero-copy view: the bytes it overlays, where they start, and the remainder
OkView(off, v, r) ==
    [kind |-> "Ok", err |-> "", value |-> v, offset |-> off, rest |-> r]

Err(e) ==
    [kind |-> "Err", err |-> e, value |-> <<>>, offset |-> 0, rest |-> <<>>]

Panic(m) ==
    [kind |-> "Panic", err |-> m, value |-> <<>>, offset |-> 0, rest |-> <<>>]

NoResult ==
    [kind |-> "None", err |-> "", value |-> <<>>, offset |-> 0, rest |-> <<>>]

NoCall ==
    [op |-> "none", self |-> 0, to |-> 0, amount |-> 0, type |-> "",
     program_id |-> "", system_program |-> "", record |-> <<>>, input |-> <<>>]

Snapshot ==
    [lamports |-> lamports, data |-> data, owner |-> owner]

\* no allocation was requested
NoAllocation ==
    [requested |-> FALSE, target |-> 0, payer |-> 0, space |-> 0, owner |-> ""]

----------------------------------------------------------------------------
(* The borrow guard of AccountInfo around the data buffer and the balance *)

NoBorrows ==
    [a \in Accounts |-> [data |-> 0, lamports |-> 0]]

NoBorrowLog ==
    [taken |-> 0, refused |-> FALSE]

\* try_borrow_data / try_borrow_lamports
Borrow(region, a) ==
    [kind |-> "borrow", region |-> region, acct |-> a]

\* try_borrow_mut_data / try_borrow_mut_lamports
BorrowMut(region, a) ==
    [kind |-> "borrow_mut", region |-> region, acct |-> a]

\* the Ref / RefMut goes out of scope
Drop(region, a) ==
    [kind |-> "drop", region |-> region, acct |-> a]

RECURSIVE ReleaseAll(_, _)
\* the guards a call still holds are dropped when it returns
ReleaseAll(bs, held) ==
    IF held = <<>> THEN bs
    ELSE LET g == Head(held)
         IN  ReleaseAll([bs EXCEPT ![g.acct][g.region] = IF @ = -1 THEN 0 ELSE @ - 1],
                        Tail(held))

\* the guard of this region that was taken last is the one dropped
RemoveGuard(held, region, a) ==
    LET idx == {i \in 1..Len(held) : held[i].region = region /\ held[i].acct = a}
        last == CHOOSE i \in idx : \A j \in idx : j <= i
    IN  SubSeq(held, 1, last - 1) \o SubSeq(held, last + 1, Len(held))

RECURSIVE Replay(_, _, _, _)
\* the guard applied to the borrows and drops of one call, in order: a
\* mutable borrow needs the region free, a shared one needs it not mutably
\* borrowed; a refused borrow makes the `?` return, dropping what is held
Replay(bs, held, log, events) ==
    IF events = <<>> THEN [state |-> bs, log |-> log]
    ELSE LET e == Head(events)
             cur == bs[e.acct][e.region]
         IN  IF e.kind = "drop"
             THEN Replay([bs EXCEPT ![e.acct][e.region] = IF cur = -1 THEN 0 ELSE cur - 1],
                         RemoveGuard(held, e.region, e.acct), log, Tail(events))
             ELSE IF (e.kind = "borrow_mut" /\ cur # 0) \/ (e.kind = "borrow" /\ cur = -1)
             THEN [state |-> ReleaseAll(bs, held), log |-> [log EXCEPT !.refused = TRUE]]
             ELSE Replay([bs EXCEPT ![e.acct][e.region] =
                              IF e.kind = "borrow_mut" THEN -1 ELSE cur + 1],
                         held \o <<e>>, [log EXCEPT !.taken = @ + 1], Tail(events))

\* what a call that takes and drops these guards does to the borrow state
Borrowing(events) ==
    LET r == Replay(borrow_state, <<>>, NoBorrowLog, events)
    IN  /\ borrow_state' = r.state
        /\ borrow_log' = r.log

----------------------------------------------------------------------------
(* Byte helpers *)

\* data[from..] of a Rust slice, 0-based from; the caller checks from <= len
SliceFrom(s, from) ==
    SubSeq(s, from + 1, Len(s))

\* data[from..to] of a Rust slice, 0-based, to exclusive
Slice(s, from, to) ==
    SubSeq(s, from + 1, to)

RECURSIVE LeBytes(_, _)
\* u64::to_le_bytes as borsh writes it: n bytes, least significant first
LeBytes(v, n) ==
    IF n = 0 THEN <<>> ELSE <<v % 256>> \o LeBytes(v \div 256, n - 1)

RECURSIVE FromLeBytes(_)
\* u64::from_le_bytes as borsh reads it
FromLeBytes(s) ==
    IF s = <<>> THEN 0 ELSE s[1] + 256 * FromLeBytes(Tail(s))

----------------------------------------------------------------------------
(* loaders.rs: LamportTransfer::send and CloseAccount::close *)

\* `*x -= n` on a u64: panics under overflow checks, wraps otherwise
SubU64(x, n) ==
    (x + U64Modulus - n) % U64Modulus

\* `*x += n` on a u64
AddU64(x, n) ==
    (x + n) % U64Modulus

\* send(&self, lamports, to): two statements, each with its own scoped
\* borrow of one balance; the second reads the balance the first left.
\* Returns the outcome and the balances in memory when it ends.
SendOp(lam, a, n, b, checks) ==
    IF checks /\ lam[a] < n
    THEN [res |-> Panic("attempt to subtract with overflow"), lamports |-> lam]
    ELSE LET debited == [lam EXCEPT ![a] = SubU64(lam[a], n)]
         IN  IF checks /\ debited[b] + n >= U64Modulus
             THEN [res |-> Panic("attempt to add with overflow"), lamports |-> debited]
             ELSE [res |-> Ok(<<>>),
                   lamports |-> [debited EXCEPT ![b] = AddU64(debited[b], n)]]

\* AccountInfo::realloc(0, true): the data region becomes empty
Realloc0(dat, x) ==
    [dat EXCEPT ![x] = <<>>]

\* close(&self, to): realloc to zero, send the whole balance, discard the
\* Result of send, return Ok(())
CloseOp(lam, dat, x, t, checks) ==
    LET sent == SendOp(lam, x, lam[x], t, checks)
    IN  [res |-> IF sent.res.kind = "Panic" THEN sent.res ELSE Ok(<<>>),
         lamports |-> sent.lamports,
         data |-> Realloc0(dat, x)]

\* send written with both RefMut bound to locals that live to the end of
\* the function: the second borrow is asked for while the first is held
SendBorrowsHeld(lam, a, n, b, checks) ==
    <<BorrowMut("lamports", a), BorrowMut("lamports", b),
      Drop("lamports", b), Drop("lamports", a)>>

\* the guards of send: `*self.try_borrow_mut_lamports()? -= n;` holds its
\* RefMut to the end of the statement, then the same for `to`; a panic in
\* the arithmetic leaves the guard of that statement taken
SendBorrows(lam, a, n, b, checks) ==
    IF checks /\ lam[a] < n
    THEN <<BorrowMut("lamports", a)>>
    ELSE <<BorrowMut("lamports", a), Drop("lamports", a), BorrowMut("lamports", b)>>
           \o (IF SendOp(lam, a, n, b, checks).res.kind = "Panic"
               THEN <<>> ELSE <<Drop("lamports", b)>>)

\* the guards of close: realloc borrows the data mutably while it resizes,
\* self.lamports() reads without a guard, then the guards of send
CloseBorrows(lam, x, t, checks) ==
    <<BorrowMut("data", x), Drop("data", x)>> \o SendBorrows(lam, x, lam[x], t, checks)

Running ==
    result.kind # "Panic"

Send(a, n, b) ==
    /\ Running
    /\ LET r == SendOp(lamports, a, n, b, overflow_checks)
       IN  /\ lamports' = r.lamports
           /\ result' = r.res
    /\ call' = [NoCall EXCEPT !.op = "send", !.self = a, !.to = b, !.amount = n]
    /\ Borrowing(SendBorrows(lamports, a, n, b, overflow_checks))
    /\ pre' = Snapshot
    /\ allocation' = NoAllocation
    /\ UNCHANGED <<data, owner, is_writable, overflow_checks, bytes, addr>>

Close(x, t) ==
    /\ Running
    /\ LET r == CloseOp(lamports, data, x, t, overflow_checks)
       IN  /\ lamports' = r.lamports
           /\ data' = r.data
           /\ result' = r.res
    /\ call' = [NoCall EXCEPT !.op = "close", !.self = x, !.to = t]
    /\ Borrowing(CloseBorrows(lamports, x, t, overflow_checks))
    /\ pre' = Snapshot
    /\ allocation' = NoAllocation
    /\ UNCHANGED <<owner, is_writable, overflow_checks, bytes, addr>>

\* an account buffer as create_account lays it out: tag, the u64 field in
\* little-endian order, then padding; cut to len bytes
AccountBuf(tag, len, v) ==
    SubSeq(<<tag>> \o LeBytes(v, 8) \o [i \in 1..MaxDataLen |-> 255], 1, len)

InitLamports ==
    /\ lamports \in [Accounts -> 0..(U64Modulus - 1)]
    /\ data \in [Accounts -> {<<>>, AccountBuf(0, 9, 0)}]
    /\ owner = [a \in Accounts |-> "program"]
    /\ is_writable = [a \in Accounts |-> TRUE]
    /\ overflow_checks \in BOOLEAN
    /\ bytes = <<>>
    /\ addr = 0
    /\ call = NoCall
    /\ pre = Snapshot
    /\ allocation = NoAllocation
    /\ borrow_state = NoBorrows
    /\ borrow_log = NoBorrowLog
    /\ result = NoResult

NextLamports ==
    \/ \E a \in Accounts, b \in Accounts, n \in 0..(U64Modulus - 1) : Send(a, n, b)
    \/ \E x \in Accounts, t \in Accounts : Close(x, t)

SpecLamports ==
    InitLamports /\ [][NextLamports]_vars

----------------------------------------------------------------------------
(* Claims on send and close *)

\* C1: transfer conservation. After a.send(n, b) with a.balance >= n the
\* call has returned Ok, a's balance is its old value minus n, b's balance is
\* its old value plus n and the sum of the two is unchanged, for every
\* destination balance and also when a and b are the same account.
C1_TransferConservation ==
    (call.op = "send" /\ pre.lamports[call.self] >= call.amount) =>
        /\ result.kind = "Ok"
        /\ lamports[call.self] = pre.lamports[call.self] - call.amount
        /\ lamports[call.to] = pre.lamports[call.to] + call.amount
        /\ lamports[call.self] + lamports[call.to]
             = pre.lamports[call.self] + pre.lamports[call.to]

\* C2: source underflow is rejected. When a.balance < n, a.send(n, b)
\* returns an error (no wrap, no abort) and both balances keep their values.
C2_UnderflowRejected ==
    (call.op = "send" /\ pre.lamports[call.self] < call.amount) =>
        /\ result.kind = "Err"
        /\ lamports[call.self] = pre.lamports[call.self]
        /\ lamports[call.to] = pre.lamports[call.to]

\* C3: close postcondition. When x.close(t) returns Ok, x's data length is
\* 0, x's balance is 0 and t's balance is its old balance plus x's old
\* balance.
C3_ClosePostcondition ==
    (call.op = "close" /\ result.kind = "Ok") =>
        /\ Len(data[call.self]) = 0
        /\ lamports[call.self] = 0
        /\ lamports[call.to] = pre.lamports[call.to] + pre.lamports[call.self]

----------------------------------------------------------------------------
(* loaders.rs: AccountInfoValidation and AsAccount *)

\* assert_owner(&self, owner)
AssertOwner(own, a, program_id) ==
    IF own[a] # program_id THEN Err("InvalidAccountOwner") ELSE Ok(<<>>)

\* assert_writable(&self)
AssertWritable(wr, a) ==
    IF ~wr[a] THEN Err("MissingRequiredSignature") ELSE Ok(<<>>)

\* assert_type::<T>(&self, program_id): assert_owner?, then data[0] (an
\* unchecked index), then the comparison with T::discriminator()
AssertTypeOp(own, dat, a, T, program_id) ==
    IF AssertOwner(own, a, program_id).kind = "Err"
    THEN AssertOwner(own, a, program_id)
    ELSE IF Len(dat[a]) = 0
    THEN Panic("index out of bounds: the len is 0 but the index is 0")
    ELSE IF dat[a][1] # Discriminator(T)
    THEN Err("InvalidAccountData")
    ELSE Ok(<<>>)

\* <T as BorshDeserialize>::try_from_slice for a record of one u64 field:
\* fails on a short slice and on bytes left over after the field
BorshTryFromSlice(T, s) ==
    IF Len(s) < SizeOf(T) THEN Err("UnexpectedEof")
    ELSE IF Len(s) > SizeOf(T) THEN Err("NotAllBytesRead")
    ELSE Ok(<<FromLeBytes(s)>>)

\* BorshSerialize::try_to_vec for a record of one u64 field
BorshToVec(T, r) ==
    LeBytes(r[1], SizeOf(T))

\* as_account::<T>(&self, program_id): assert_owner?, then &data[1..] (an
\* unchecked slice), then try_from_slice with every error mapped to
\* InvalidAccountData; the tag in byte 0 is not read
AsAccountOp(own, dat, a, T, program_id) ==
    IF AssertOwner(own, a, program_id).kind = "Err"
    THEN AssertOwner(own, a, program_id)
    ELSE IF Len(dat[a]) < BorshOffset
    THEN Panic("range start index 1 out of range for slice of length 0")
    ELSE IF BorshTryFromSlice(T, SliceFrom(dat[a], BorshOffset)).kind = "Err"
    THEN Err("InvalidAccountData")
    ELSE BorshTryFromSlice(T, SliceFrom(dat[a], BorshOffset))

\* save_account::<T>(&self, program_id, data): assert_owner?.assert_writable()?,
\* data[0] = tag (unchecked index), data[1..].copy_from_slice(encoding),
\* which panics unless the two lengths are equal. Returns the outcome and
\* the buffer in memory when it ends.
SaveAccountOp(own, wr, dat, a, T, program_id, r) ==
    IF AssertOwner(own, a, program_id).kind = "Err"
    THEN [res |-> AssertOwner(own, a, program_id), data |-> dat]
    ELSE IF AssertWritable(wr, a).kind = "Err"
    THEN [res |-> AssertWritable(wr, a), data |-> dat]
    ELSE IF Len(dat[a]) = 0
    THEN [res |-> Panic("index out of bounds: the len is 0 but the index is 0"),
          data |-> dat]
    ELSE LET tagged == [dat EXCEPT ![a][1] = Discriminator(T)]
         IN  IF Len(dat[a]) - BorshOffset # Len(BorshToVec(T, r))
             THEN [res |-> Panic("source slice length does not match destination slice length"),
                   data |-> tagged]
             ELSE [res |-> Ok(<<>>),
                   data |-> [tagged EXCEPT ![a] = <<Discriminator(T)>> \o BorshToVec(T, r)]]

\* the guards of assert_type and as_account: none when the owner check
\* fails; else a shared borrow of the data, a temporary dropped at the end
\* of the statement unless the index or the slice panics
ReadBorrows(res, a) ==
    IF res.kind = "Panic" THEN <<Borrow("data", a)>>
    ELSE IF res.kind = "Err" /\ res.err = "InvalidAccountOwner" THEN <<>>
    ELSE <<Borrow("data", a), Drop("data", a)>>

\* the guards of save_account and create_account: none when a check or the
\* allocation fails; else one mutable borrow of the data held in a local
\* to the end of the function, on `?` too, unless the write panics
WriteBorrows(res, a) ==
    IF res.kind = "Panic" THEN <<BorrowMut("data", a)>>
    ELSE IF res.kind = "Err" THEN <<>>
    ELSE <<BorrowMut("data", a), Drop("data", a)>>

AssertType(a, T, program_id) ==
    /\ Running
    /\ Borrowing(ReadBorrows(AssertTypeOp(owner, data, a, T, program_id), a))
    /\ result' = AssertTypeOp(owner, data, a, T, program_id)
    /\ call' = [NoCall EXCEPT !.op = "assert_type", !.self = a, !.type = T,
                              !.program_id = program_id]
    /\ pre' = Snapshot
    /\ allocation' = NoAllocation
    /\ UNCHANGED <<lamports, data, owner, is_writable, overflow_checks, bytes, addr>>

AsAccount(a, T, program_id) ==
    /\ Running
    /\ Borrowing(ReadBorrows(AsAccountOp(owner, data, a, T, program_id), a))
    /\ result' = AsAccountOp(owner, data, a, T, program_id)
    /\ call' = [NoCall EXCEPT !.op = "as_account", !.self = a, !.type = T,
                              !.program_id = program_id]
    /\ pre' = Snapshot
    /\ allocation' = NoAllocation
    /\ UNCHANGED <<lamports, data, owner, is_writable, overflow_checks, bytes, addr>>

SaveAccount(a, T, program_id, r) ==
    /\ Running
    /\ LET s == SaveAccountOp(owner, is_writable, data, a, T, program_id, r)
       IN  /\ data' = s.data
           /\ result' = s.res
           /\ Borrowing(WriteBorrows(s.res, a))
    /\ call' = [NoCall EXCEPT !.op = "save_account", !.self = a, !.type = T,
                              !.program_id = program_id, !.record = r]
    /\ pre' = Snapshot
    /\ allocation' = NoAllocation
    /\ UNCHANGED <<lamports, owner, is_writable, overflow_checks, bytes, addr>>

\* allocate_account(target, system_program, payer, space, owner, seeds) of
\* cpi.rs: the allocator either grants exactly `space` zeroed bytes at the
\* target and assigns it to `new_owner`, or fails and leaves it as it was
AllocateAccount(own, dat, a, space, new_owner, grant) ==
    IF grant
    THEN [res |-> Ok(<<>>),
          data |-> [dat EXCEPT ![a] = [i \in 1..space |-> 0]],
          owner |-> [own EXCEPT ![a] = new_owner]]
    ELSE [res |-> Err("AllocationFault"), data |-> dat, owner |-> own]

\* assert_empty(&self)
AssertEmpty(dat, a) ==
    IF Len(dat[a]) # 0 THEN Err("AccountAlreadyInitialized") ELSE Ok(<<>>)

\* create_account with the statement `data[0] = T::discriminator()` left
\* out: the tag byte keeps the zero the allocator wrote
CreateAccountOpNoTag(own, wr, dat, a, T, r, sp, payer, new_owner, grant) ==
    LET unchanged(res) ==
            [res |-> res, data |-> dat, owner |-> own, allocation |-> NoAllocation]
        space == 1 + Len(BorshToVec(T, r))
        alloc == AllocateAccount(own, dat, a, space, new_owner, grant)
        asked == [requested |-> TRUE, target |-> a, payer |-> payer,
                  space |-> space, owner |-> new_owner]
    IN  IF AssertEmpty(dat, a).kind = "Err"
        THEN unchanged(AssertEmpty(dat, a))
        ELSE IF AssertOwner(own, a, sp).kind = "Err"
        THEN unchanged(AssertOwner(own, a, sp))
        ELSE IF AssertWritable(wr, a).kind = "Err"
        THEN unchanged(AssertWritable(wr, a))
        ELSE IF alloc.res.kind = "Err"
        THEN [res |-> alloc.res, data |-> alloc.data, owner |-> alloc.owner,
              allocation |-> asked]
        ELSE IF Len(alloc.data[a]) - BorshOffset # Len(BorshToVec(T, r))
        THEN [res |-> Panic("source slice length does not match destination slice length"),
              data |-> alloc.data, owner |-> alloc.owner, allocation |-> asked]
        ELSE [res |-> Ok(<<>>),
              data |-> [alloc.data EXCEPT ![a] = <<alloc.data[a][1]>> \o BorshToVec(T, r)],
              owner |-> alloc.owner, allocation |-> asked]

\* create_account::<T>(&self, data, system_program, payer, owner, seeds):
\* assert_empty()?.assert_owner(system_program.key())?.assert_writable()?,
\* space = 1 + encoding length, allocate_account(..)?, then data[0] = tag
\* and data[1..].copy_from_slice(encoding). Returns the outcome, the buffers
\* and owners in memory when it ends, and the allocation it asked for.
CreateAccountOp(own, wr, dat, a, T, r, sp, payer, new_owner, grant) ==
    LET unchanged(res) ==
            [res |-> res, data |-> dat, owner |-> own, allocation |-> NoAllocation]
        space == 1 + Len(BorshToVec(T, r))
        alloc == AllocateAccount(own, dat, a, space, new_owner, grant)
        asked == [requested |-> TRUE, target |-> a, payer |-> payer,
                  space |-> space, owner |-> new_owner]
        tagged == [alloc.data EXCEPT ![a][1] = Discriminator(T)]
    IN  IF AssertEmpty(dat, a).kind = "Err"
        THEN unchanged(AssertEmpty(dat, a))
        ELSE IF AssertOwner(own, a, sp).kind = "Err"
        THEN unchanged(AssertOwner(own, a, sp))
        ELSE IF AssertWritable(wr, a).kind = "Err"
        THEN unchanged(AssertWritable(wr, a))
        ELSE IF alloc.res.kind = "Err"
        THEN [res |-> alloc.res, data |-> alloc.data, owner |-> alloc.owner,
              allocation |-> asked]
        ELSE IF Len(alloc.data[a]) = 0
        THEN [res |-> Panic("index out of bounds: the len is 0 but the index is 0"),
              data |-> alloc.data, owner |-> alloc.owner, allocation |-> asked]
        ELSE IF Len(alloc.data[a]) - BorshOffset # Len(BorshToVec(T, r))
        THEN [res |-> Panic("source slice length does not match destination slice length"),
              data |-> tagged, owner |-> alloc.owner, allocation |-> asked]
        ELSE [res |-> Ok(<<>>),
              data |-> [tagged EXCEPT ![a] = <<Discriminator(T)>> \o BorshToVec(T, r)],
              owner |-> alloc.owner, allocation |-> asked]

CreateAccount(a, T, r, sp, payer, new_owner, grant) ==
    /\ Running
    /\ LET c == CreateAccountOp(owner, is_writable, data, a, T, r, sp, payer, new_owner, grant)
       IN  /\ data' = c.data
           /\ owner' = c.owner
           /\ allocation' = c.allocation
           /\ result' = c.res
           /\ Borrowing(WriteBorrows(c.res, a))
    /\ call' = [NoCall EXCEPT !.op = "create_account", !.self = a, !.to = payer,
                              !.type = T, !.program_id = new_owner,
                              !.system_program = sp, !.record = r]
    /\ pre' = Snapshot
    /\ UNCHANGED <<lamports, is_writable, overflow_checks, bytes, addr>>

\* the record values written and read back: one u64 field
RecordValues ==
    {<<0>>, <<258>>}

\* the first bytes an account can hold: both account tags and a foreign one
TagBytes ==
    {0, 1, 7}

\* the data buffers a caller can supply for the first account
AccountData ==
    {AccountBuf(tag, len, r[1]) : tag \in TagBytes, len \in 0..MaxDataLen, r \in RecordValues}

Init ==
    /\ lamports = [a \in Accounts |-> 1]
    /\ \E d \in AccountData : data = [a \in Accounts |-> IF a = 1 THEN d ELSE <<>>]
    /\ \E o \in Pubkeys : owner = [a \in Accounts |-> IF a = 1 THEN o ELSE "system"]
    /\ \E w \in BOOLEAN : is_writable = [a \in Accounts |-> IF a = 1 THEN w ELSE TRUE]
    /\ overflow_checks \in BOOLEAN
    /\ bytes = <<>>
    /\ addr = 0
    /\ call = NoCall
    /\ pre = Snapshot
    /\ allocation = NoAllocation
    /\ borrow_state = NoBorrows
    /\ borrow_log = NoBorrowLog
    /\ result = NoResult

Next ==
    \/ \E a \in Accounts, T \in AccountTypes, p \in Pubkeys : AssertType(a, T, p)
    \/ \E a \in Accounts, T \in AccountTypes, p \in Pubkeys : AsAccount(a, T, p)
    \/ \E a \in Accounts, T \in AccountTypes, p \in Pubkeys, r \in RecordValues :
           SaveAccount(a, T, p, r)

Spec ==
    Init /\ [][Next]_vars

\* the allocation path: targets that are empty or already initialised,
\* owned by the system program or not, writable or not
InitCreate ==
    /\ lamports = [a \in Accounts |-> 1]
    /\ data \in [Accounts -> {<<>>, AccountBuf(0, 9, 0)}]
    /\ owner \in [Accounts -> Pubkeys]
    /\ \E w \in BOOLEAN : is_writable = [a \in Accounts |-> IF a = 1 THEN w ELSE TRUE]
    /\ overflow_checks = FALSE
    /\ bytes = <<>>
    /\ addr = 0
    /\ call = NoCall
    /\ pre = Snapshot
    /\ allocation = NoAllocation
    /\ borrow_state = NoBorrows
    /\ borrow_log = NoBorrowLog
    /\ result = NoResult

NextCreate ==
    \/ \E a \in Accounts, T \in AccountTypes, r \in RecordValues, sp \in Pubkeys,
          p \in Pubkeys, grant \in BOOLEAN :
           CreateAccount(a, T, r, sp, CHOOSE payer \in Accounts : payer # a, p, grant)
    \/ \E a \in Accounts, T \in AccountTypes, p \in Pubkeys : AsAccount(a, T, p)

SpecCreate ==
    InitCreate /\ [][NextCreate]_vars

\* the amounts sent in the sequences of SpecLifecycle
LifecycleAmounts ==
    {0, 1}

\* sequences of all six operations on two handles, aliased or not
InitLifecycle ==
    /\ lamports = [a \in Accounts |-> 1]
    /\ \E d \in {<<>>, AccountBuf(0, 9, 0)} :
           data = [a \in Accounts |-> IF a = 1 THEN d ELSE <<>>]
    /\ \E o \in Pubkeys : owner = [a \in Accounts |-> IF a = 1 THEN o ELSE "system"]
    /\ is_writable = [a \in Accounts |-> TRUE]
    /\ overflow_checks \in BOOLEAN
    /\ bytes = <<>>
    /\ addr = 0
    /\ call = NoCall
    /\ pre = Snapshot
    /\ allocation = NoAllocation
    /\ borrow_state = NoBorrows
    /\ borrow_log = NoBorrowLog
    /\ result = NoResult

NextLifecycle ==
    \/ \E a \in Accounts, T \in AccountTypes, p \in Pubkeys : AssertType(a, T, p)
    \/ \E a \in Accounts, T \in AccountTypes, p \in Pubkeys : AsAccount(a, T, p)
    \/ \E a \in Accounts, T \in AccountTypes, p \in Pubkeys : SaveAccount(a, T, p, <<0>>)
    \/ \E a \in Accounts, T \in AccountTypes, p \in Pubkeys, grant \in BOOLEAN :
           CreateAccount(a, T, <<0>>, "system", CHOOSE payer \in Accounts : payer # a, p, grant)
    \/ \E a \in Accounts, b \in Accounts, n \in LifecycleAmounts : Send(a, n, b)
    \/ \E x \in Accounts, t \in Accounts : Close(x, t)

SpecLifecycle ==
    InitLifecycle /\ [][NextLifecycle]_vars

----------------------------------------------------------------------------
(* Claims on the allocation path *)

\* the target was empty, writable and owned by the system program handed in
CreatePreconditions ==
    /\ Len(pre.data[call.self]) = 0
    /\ is_writable[call.self]
    /\ pre.owner[call.self] = call.system_program

\* C11: create-then-read. When create_account(r, system_program, payer,
\* owner, seeds) returns Ok on a target that was empty, writable and owned
\* by the system program (the allocator granting exactly the requested
\* space and assigning owner), the data length is 1 + encoded_size(r), byte
\* 0 is discriminator(T) and as_account::<T>(owner) returns r; when one of
\* the three preconditions fails, create_account returns an error, asks for
\* no allocation and writes nothing.
C11_CreateThenRead ==
    (call.op = "create_account") =>
        /\ (CreatePreconditions /\ result.kind = "Ok") =>
              /\ Len(data[call.self]) = 1 + Len(BorshToVec(call.type, call.record))
              /\ data[call.self][1] = Discriminator(call.type)
              /\ AsAccountOp(owner, data, call.self, call.type, call.program_id)
                   = Ok(call.record)
        /\ (~CreatePreconditions) =>
              /\ result.kind = "Err"
              /\ ~allocation.requested
              /\ data = pre.data
              /\ owner = pre.owner

\* a Profile { id: 258 } was created for the program and is in the buffer
C11_Witness ==
    /\ call.op = "create_account"
    /\ result.kind = "Ok"
    /\ CreatePreconditions
    /\ call.type = "Profile"
    /\ call.record = <<258>>
    /\ call.program_id = "program"
    /\ allocation.requested /\ allocation.space = 9
    /\ owner[call.self] = "program"
    /\ data[call.self] = <<1, 2, 1, 0, 0, 0, 0, 0, 0>>

\* C13: scoped borrows. After a sequence of assert_type, as_account,
\* save_account, create_account, send and close calls, each returning Ok or
\* Err, no borrow of a data buffer or a balance is outstanding, so a later
\* mutable borrow is not refused; and within a call no borrow was asked for
\* on a region the call itself still held, send and close onto the same
\* account included.
C13_ScopedBorrows ==
    (/\ call.op \in {"assert_type", "as_account", "save_account",
                     "create_account", "send", "close"}
     /\ result.kind \in {"Ok", "Err"}) =>
        /\ \A a \in Accounts : borrow_state[a].data = 0 /\ borrow_state[a].lamports = 0
        /\ ~borrow_log.refused

\* a send of one lamport from an account to itself returned Ok: it took its
\* two borrows of the same balance one after the other, none refused
C13_Witness ==
    /\ call.op = "send"
    /\ call.self = call.to
    /\ call.amount = 1
    /\ result.kind = "Ok"
    /\ borrow_log.taken = 2
    /\ ~borrow_log.refused
    /\ Len(pre.data[call.self]) = 0
    /\ pre.owner[call.self] = "program"

----------------------------------------------------------------------------
(* Claims on the validation chain and the typed read *)

\* C4: type-tag rejection on read. For an account whose data byte 0 differs
\* from discriminator(T), as_account::<T>(program_id) returns an error of
\* the invalid-account kind, whatever the owner and the later bytes are; it
\* never returns a decoded T.
C4_TagMismatchRejected ==
    (/\ call.op = "as_account"
     /\ Len(pre.data[call.self]) >= 1
     /\ pre.data[call.self][1] # Discriminator(call.type)) =>
        /\ result.kind = "Err"
        /\ result.err \in {"InvalidAccountData", "InvalidAccountOwner"}

\* C5: the typed read succeeds on every well-formed buffer. With owner ==
\* program_id, byte 0 == discriminator(T) and length >= 1 + size_of(T),
\* longer buffers included, as_account::<T>(program_id) returns Ok and the
\* field equals the little-endian reading of bytes [1, 1 + size_of(T)).
C5_WellFormedReadSucceeds ==
    (/\ call.op = "as_account"
     /\ owner[call.self] = call.program_id
     /\ Len(pre.data[call.self]) >= 1 + SizeOf(call.type)
     /\ pre.data[call.self][1] = Discriminator(call.type)) =>
        /\ result.kind = "Ok"
        /\ result.value
             = <<FromLeBytes(Slice(pre.data[call.self], 1, 1 + SizeOf(call.type)))>>

\* C7: assert_type::<T>(program) returns the handle exactly when the owner
\* equals program and data byte 0 equals discriminator(T); in every other
\* case it fails with InvalidAccountData.
C7_AssertTypeOutcome ==
    (call.op = "assert_type") =>
        IF /\ owner[call.self] = call.program_id
           /\ Len(pre.data[call.self]) >= 1
           /\ pre.data[call.self][1] = Discriminator(call.type)
        THEN result.kind = "Ok"
        ELSE result.kind = "Err" /\ result.err = "InvalidAccountData"

\* C12: save_account(program_id, r). With a wrong owner or a read-only
\* account it returns an error and no data byte changes; otherwise, when the
\* encoding fits, byte 0 becomes discriminator(T) and bytes 1.. hold the
\* encoding of r; when 1 + encoded_size(r) exceeds the buffer it fails with
\* an error leaving the buffer as it was, or grows the buffer and writes
\* the whole record; never a new tag over the old payload.
C12_SaveAccountOutcome ==
    (call.op = "save_account") =>
        LET a == call.self
            enc == BorshToVec(call.type, call.record)
        IN  IF owner[a] # call.program_id \/ ~is_writable[a]
            THEN result.kind = "Err" /\ data = pre.data
            ELSE IF 1 + Len(enc) <= Len(pre.data[a])
            THEN /\ result.kind = "Ok"
                 /\ data[a][1] = Discriminator(call.type)
                 /\ Slice(data[a], 1, 1 + Len(enc)) = enc
            ELSE \/ result.kind = "Err" /\ data = pre.data
                 \/ result.kind = "Ok" /\ data[a] = <<Discriminator(call.type)>> \o enc

\* C10: no abort on untrusted input. Whatever account state and arguments
\* the caller supplies, every operation returns Ok or Err; none panics.
C10_NoAbort ==
    result.kind # "Panic"

----------------------------------------------------------------------------
(* traits.rs: AccountDeserialize and AccountHeaderDeserialize *)

\* bytemuck::try_from_bytes::<T>(s) for the slice that starts at byte `at`
\* of a buffer whose first byte sits at address `base` (mod the alignment):
\* the length must be exactly size_of::<T>() and the address aligned
BytemuckTryFromBytes(T, s, base, at) ==
    IF Len(s) # SizeOf(T) THEN Err("SizeMismatch")
    ELSE IF (base + at) % AlignOf(T) # 0 THEN Err("TargetAlignmentGreaterAndInputNotAligned")
    ELSE OkView(at, s, <<>>)

\* try_from_bytes(data) and try_from_bytes_mut(data): the same body
TryFromBytesOp(T, d, base) ==
    IF Len(d) = 0
    THEN Panic("index out of bounds: the len is 0 but the index is 0")
    ELSE IF Discriminator(T) # d[1]
    THEN Err("InvalidAccountData")
    ELSE IF Len(d) < PodOffset
    THEN Panic("range start index 8 out of range for slice")
    ELSE IF BytemuckTryFromBytes(T, SliceFrom(d, PodOffset), base, PodOffset).kind = "Err"
    THEN Err("InvalidAccountData")
    ELSE BytemuckTryFromBytes(T, SliceFrom(d, PodOffset), base, PodOffset)

\* data[8..].split_at(size_of::<T>()) followed by the conversion of the
\* prefix; the remainder is returned as it is
SplitHeader(T, d, base) ==
    IF Len(d) < PodOffset
    THEN Panic("range start index 8 out of range for slice")
    ELSE IF Len(d) - PodOffset < SizeOf(T)
    THEN Panic("mid > len")
    ELSE IF BytemuckTryFromBytes(T, Slice(d, PodOffset, PodOffset + SizeOf(T)),
                                 base, PodOffset).kind = "Err"
    THEN Err("InvalidAccountData")
    ELSE OkView(PodOffset, Slice(d, PodOffset, PodOffset + SizeOf(T)),
                SliceFrom(d, PodOffset + SizeOf(T)))

\* try_header_from_bytes(data): the tag check, then the split
TryHeaderFromBytesOp(T, d, base) ==
    IF Len(d) = 0
    THEN Panic("index out of bounds: the len is 0 but the index is 0")
    ELSE IF Discriminator(T) # d[1]
    THEN Err("InvalidAccountData")
    ELSE SplitHeader(T, d, base)

\* try_header_from_bytes_mut(data): the split alone, no tag check
TryHeaderFromBytesMutOp(T, d, base) ==
    SplitHeader(T, d, base)

----------------------------------------------------------------------------
(* macros.rs: borsh_instruction! *)

\* borsh::to_vec(self): the fields in declaration order, each [u8; N]
\* field written as its N bytes and nothing else (no length prefix); a
\* payload is the sequence of its fields
RECURSIVE InstructionToVec(_, _)
InstructionToVec(T, p) ==
    IF p = <<>> THEN <<>> ELSE Head(p) \o InstructionToVec(T, Tail(p))

\* <Self>::try_from_slice(data) for an instruction payload: Add reads its
\* one [u8; 8] field, Initialize reads nothing; bytes left over are an error
InstructionTryFromSlice(T, s) ==
    IF Len(s) < InstructionSize(T) THEN Err("UnexpectedEof")
    ELSE IF Len(s) > InstructionSize(T) THEN Err("NotAllBytesRead")
    ELSE IF T = "Add" THEN Ok(<<s>>)
    ELSE Ok(<<>>)

\* to_bytes(&self): the tag byte, then the borsh encoding
InstructionToBytes(T, p) ==
    <<InstructionDiscriminator(T)>> \o InstructionToVec(T, p)

\* Self::try_from_bytes(data): try_from_slice on the whole of data
InstructionTryFromBytes(T, d) ==
    IF InstructionTryFromSlice(T, d).kind = "Err"
    THEN Err("InvalidInstructionData")
    ELSE InstructionTryFromSlice(T, d)

\* the payloads of each instruction type that are encoded: Add { value }
\* with three values of the array, Initialize {}
Payloads(T) ==
    CASE T = "Add" -> {<<[i \in 1..8 |-> 0]>>, <<[i \in 1..8 |-> i]>>, <<[i \in 1..8 |-> 255]>>}
      [] T = "Initialize" -> {<<>>}

----------------------------------------------------------------------------
(* Actions of SpecCodec *)

Decoded(op, T, res) ==
    /\ Running
    /\ result' = res
    /\ call' = [NoCall EXCEPT !.op = op, !.type = T, !.input = bytes]
    /\ Borrowing(<<>>)
    /\ pre' = Snapshot
    /\ allocation' = NoAllocation
    /\ UNCHANGED <<lamports, data, owner, is_writable, overflow_checks, bytes, addr>>

TryFromBytes(T) ==
    Decoded("try_from_bytes", T, TryFromBytesOp(T, bytes, addr))

TryFromBytesMut(T) ==
    Decoded("try_from_bytes_mut", T, TryFromBytesOp(T, bytes, addr))

TryHeaderFromBytes(T) ==
    Decoded("try_header_from_bytes", T, TryHeaderFromBytesOp(T, bytes, addr))

TryHeaderFromBytesMut(T) ==
    Decoded("try_header_from_bytes_mut", T, TryHeaderFromBytesMutOp(T, bytes, addr))

ToBytes(T, p) ==
    /\ Running
    /\ bytes' = InstructionToBytes(T, p)
    /\ result' = Ok(InstructionToBytes(T, p))
    /\ call' = [NoCall EXCEPT !.op = "to_bytes", !.type = T, !.record = p]
    /\ Borrowing(<<>>)
    /\ pre' = Snapshot
    /\ allocation' = NoAllocation
    /\ UNCHANGED <<lamports, data, owner, is_writable, overflow_checks, addr>>

InstructionFromBytes(T) ==
    Decoded("instruction_try_from_bytes", T, InstructionTryFromBytes(T, bytes))

\* a raw buffer: the first byte, then bytes that differ from place to place
RawBuf(tag, len, fill) ==
    [i \in 1..len |-> IF i = 1 THEN tag ELSE (fill + i) % 256]

RawBufs ==
    {RawBuf(tag, len, fill) : tag \in TagBytes, len \in 0..MaxBufLen, fill \in {0, 100}}

\* where the buffer starts, modulo 8: aligned as account data is, or not
Addrs ==
    {0, 1}

InitCodec ==
    /\ lamports = [a \in Accounts |-> 1]
    /\ data = [a \in Accounts |-> <<>>]
    /\ owner = [a \in Accounts |-> "program"]
    /\ is_writable = [a \in Accounts |-> TRUE]
    /\ overflow_checks \in BOOLEAN
    /\ bytes \in RawBufs
    /\ addr \in Addrs
    /\ call = NoCall
    /\ pre = Snapshot
    /\ allocation = NoAllocation
    /\ borrow_state = NoBorrows
    /\ borrow_log = NoBorrowLog
    /\ result = NoResult

NextCodec ==
    \/ \E T \in AccountTypes : TryFromBytes(T)
    \/ \E T \in AccountTypes : TryFromBytesMut(T)
    \/ \E T \in AccountTypes : TryHeaderFromBytes(T)
    \/ \E T \in AccountTypes : TryHeaderFromBytesMut(T)
    \/ \E T \in InstructionTypes : \E p \in Payloads(T) : ToBytes(T, p)
    \/ \E T \in InstructionTypes : InstructionFromBytes(T)

SpecCodec ==
    InitCodec /\ [][NextCodec]_vars

----------------------------------------------------------------------------
(* Claims on the codecs *)

\* C6: instruction codec round trip. For every payload p of a type declared
\* with borsh_instruction!, try_from_bytes applied to p.to_bytes() (the tag
\* byte followed by the serialized fields) returns Ok with a value equal to p.
C6_InstructionRoundTrip ==
    (call.op = "instruction_try_from_bytes") =>
        \A p \in Payloads(call.type) :
            (call.input = InstructionToBytes(call.type, p)) =>
                result.kind = "Ok" /\ result.value = p

\* C8: fixed-layout decode. try_from_bytes / try_from_bytes_mut succeed only
\* if the length is >= 1 + size_of(T) and byte 0 equals discriminator(T),
\* and then the reference overlays bytes [1, 1 + size_of(T)); when the
\* length check or the tag check fails they return Err(InvalidAccountData).
C8_FixedLayoutDecode ==
    (call.op \in {"try_from_bytes", "try_from_bytes_mut"}) =>
        /\ (result.kind = "Ok") =>
              /\ Len(call.input) >= 1 + SizeOf(call.type)
              /\ call.input[1] = Discriminator(call.type)
              /\ result.offset = 1
              /\ result.value = Slice(call.input, 1, 1 + SizeOf(call.type))
        /\ (\/ Len(call.input) < 1 + SizeOf(call.type)
            \/ call.input[1] # Discriminator(call.type)) =>
              result.kind = "Err" /\ result.err = "InvalidAccountData"

\* C9: header + body split. try_header_from_bytes and its _mut variant apply
\* the checks of the fixed-layout decode (byte 0 must equal
\* discriminator(Header), else InvalidAccountData); on success the header
\* overlays bytes [1, 1 + size_of(Header)) and the remainder is the bytes
\* from offset 1 + size_of(Header) to the end.
C9_HeaderBodySplit ==
    (call.op \in {"try_header_from_bytes", "try_header_from_bytes_mut"}) =>
        /\ (\/ Len(call.input) < 1 + SizeOf(call.type)
            \/ call.input[1] # Discriminator(call.type)) =>
              result.kind = "Err" /\ result.err = "InvalidAccountData"
        /\ (result.kind = "Ok") =>
              /\ result.offset = 1
              /\ result.value = Slice(call.input, 1, 1 + SizeOf(call.type))
              /\ result.rest = SliceFrom(call.input, 1 + SizeOf(call.type))

====
